---------------------------- MODULE Spec2Model ----------------------------
(***************************************************************************)
(* Form-submission intake pipeline of the LifeLine Health Plans backend    *)
(* (src/server.js): five POST handlers, the connection pool's statements,  *)
(* the mail transporter, the error middleware and the SIGTERM handler.     *)
(*                                                                         *)
(* Every handler is an async function: it runs synchronously up to its     *)
(* first await (pool.query), is resumed when the promise settles, runs up  *)
(* to its next await (transporter.sendMail) and is resumed again.  The     *)
(* model has one action per such run-to-completion segment, one action per *)
(* SQL statement executed by the store, and one per outcome of the mail    *)
(* transport.                                                              *)
(***************************************************************************)
EXTENDS Integers, Sequences, FiniteSets, TLC

\* Number of request slots; slot numbers are arrival order.
NumReq == 2

Reqs == 1..NumReq

----------------------------------------------------------------------------
(* JavaScript values of the request body.                                  *)

\* A destructured field that is absent from req.body.
Undef == "<undefined>"
\* SQL NULL in a stored column (pg sends undefined and null parameters as NULL).
SqlNull == "<NULL>"

\* `!x` of the source, for the string-or-absent fields of a body.
Truthy(v) == v # Undef /\ v # ""

\* Structured values (surveyData). One record shape for every JS value:
\* t is the type tag, s the scalar's text, keys/kids the members.
JsUndefined == [t |-> "undefined", s |-> "", keys |-> <<>>, kids |-> <<>>]
JsNull == [t |-> "null", s |-> "", keys |-> <<>>, kids |-> <<>>]
JsNum(s) == [t |-> "number", s |-> s, keys |-> <<>>, kids |-> <<>>]
JsStr(s) == [t |-> "string", s |-> s, keys |-> <<>>, kids |-> <<>>]
JsBool(s) == [t |-> "boolean", s |-> s, keys |-> <<>>, kids |-> <<>>]
JsArr(kids) == [t |-> "array", s |-> "", keys |-> <<>>, kids |-> kids]
JsObj(keys, kids) == [t |-> "object", s |-> "", keys |-> keys, kids |-> kids]

\* Numbers body-parser's JSON.parse can deliver: finite ones, negative zero
\* (from the text -0) and Infinity (from a literal that overflows, 1e999).
FiniteNums == {"0", "1"}
Strs == {"", "a"}


\* The text of a string literal.
Quote(s) == "\"" \o s \o "\""

\* Number -> text as JSON.stringify writes it: negative zero prints as 0, a
\* non-finite number prints as null.
NumberText(s) ==
  CASE s = "-0" -> "0"
    [] s = "Infinity" -> "null"
    [] OTHER -> s

RECURSIVE JSONstringify_truncating(_)
\* A serializer that keeps only the first element of every array.
JSONstringify_truncating(v) ==
  CASE v.t = "undefined" -> <<Undef>>
    [] v.t = "null" -> <<"null">>
    [] v.t = "boolean" -> <<v.s>>
    [] v.t = "number" -> <<NumberText(v.s)>>
    [] v.t = "string" -> <<Quote(v.s)>>
    [] v.t = "array" ->
         IF v.kids = <<>> THEN <<"[", "]">>
         ELSE <<"[">> \o JSONstringify_truncating(v.kids[1]) \o <<"]">>
    [] v.t = "object" ->
         IF v.keys = <<>> THEN <<"{", "}">>
         ELSE <<"{", Quote(v.keys[1]), ":">>
                \o JSONstringify_truncating(v.kids[1]) \o <<"}">>

RECURSIVE JSONstringify(_), StringifyElems(_), StringifyMembers(_, _)
\* JSON.stringify(value): the text as a sequence of tokens; for undefined
\* the result is undefined itself, not a text.
JSONstringify(v) ==
  CASE v.t = "undefined" -> <<Undef>>
    [] v.t = "null" -> <<"null">>
    [] v.t = "boolean" -> <<v.s>>
    [] v.t = "number" -> <<NumberText(v.s)>>
    [] v.t = "string" -> <<Quote(v.s)>>
    [] v.t = "array" -> <<"[">> \o StringifyElems(v.kids) \o <<"]">>
    [] v.t = "object" -> <<"{">> \o StringifyMembers(v.keys, v.kids) \o <<"}">>

StringifyElems(kids) ==
  IF kids = <<>> THEN <<>>
  ELSE IF Len(kids) = 1 THEN JSONstringify(kids[1])
  ELSE JSONstringify(kids[1]) \o <<",">> \o StringifyElems(Tail(kids))

StringifyMembers(keys, kids) ==
  IF keys = <<>> THEN <<>>
  ELSE IF Len(keys) = 1 THEN <<Quote(keys[1]), ":">> \o JSONstringify(kids[1])
  ELSE <<Quote(keys[1]), ":">> \o JSONstringify(kids[1]) \o <<",">>
         \o StringifyMembers(Tail(keys), Tail(kids))

\* pg's parameter preparation: undefined (and null) become SQL NULL.
PrepareValue(p) == IF p = Undef THEN SqlNull ELSE p
PrepareText(p) == IF p = <<Undef>> THEN <<SqlNull>> ELSE p

\* Strings a token can quote (values and member names of the bodies used).
QuotedStrs == Strs \cup {"q"}

RECURSIVE ParseValue(_), ParseElems(_, _), ParseMembers(_, _, _)
\* JSON.parse over a token sequence: [v |-> value, rest |-> tokens left].
ParseValue(ts) ==
  LET h == Head(ts) IN
  CASE h = "null" -> [v |-> JsNull, rest |-> Tail(ts)]
    [] h \in {"true", "false"} -> [v |-> JsBool(h), rest |-> Tail(ts)]
    [] h \in FiniteNums -> [v |-> JsNum(h), rest |-> Tail(ts)]
    [] h \in {Quote(s) : s \in QuotedStrs} ->
         [v |-> JsStr(CHOOSE s \in QuotedStrs : Quote(s) = h), rest |-> Tail(ts)]
    [] h = "[" ->
         IF ts[2] = "]" THEN [v |-> JsArr(<<>>), rest |-> Tail(Tail(ts))]
         ELSE ParseElems(Tail(ts), <<>>)
    [] h = "{" ->
         IF ts[2] = "}" THEN [v |-> JsObj(<<>>, <<>>), rest |-> Tail(Tail(ts))]
         ELSE ParseMembers(Tail(ts), <<>>, <<>>)

ParseElems(ts, acc) ==
  LET e == ParseValue(ts) IN
  IF Head(e.rest) = "," THEN ParseElems(Tail(e.rest), Append(acc, e.v))
  ELSE [v |-> JsArr(Append(acc, e.v)), rest |-> Tail(e.rest)]

ParseMembers(ts, keys, kids) ==
  LET k == CHOOSE s \in QuotedStrs : Quote(s) = Head(ts)
      e == ParseValue(Tail(Tail(ts)))
  IN IF Head(e.rest) = ","
     THEN ParseMembers(Tail(e.rest), Append(keys, k), Append(kids, e.v))
     ELSE [v |-> JsObj(Append(keys, k), Append(kids, e.v)), rest |-> Tail(e.rest)]

\* Reading a stored survey_data column back and deserializing it: SQL NULL
\* is delivered as null, a text is parsed.
ReadBack(column) ==
  IF column = <<SqlNull>> THEN JsNull ELSE ParseValue(column).v

----------------------------------------------------------------------------
(* Request bodies, validation and response bodies.                         *)

Routes == {"contact", "appointment", "quote", "survey", "newsletter"}

\* The destructured fields of req.body; a field a route does not read is Undef.
Body(name, contactName, email, phone, surveyData) ==
  [name |-> name, contactName |-> contactName, email |-> email,
   phone |-> phone, surveyData |-> surveyData]

\* The bodies submitted: for every route, one body per outcome of each test
\* of its validation, with both falsy forms (absent, empty string) in use.
ContactBodies ==
  {Body(Undef, Undef, "a", Undef, JsUndefined),
   Body("a", Undef, "", Undef, JsUndefined),
   Body("a", Undef, "a", Undef, JsUndefined),
   Body("a", Undef, "", "a", JsUndefined)}
AppointmentBodies ==
  {Body("", Undef, "a", Undef, JsUndefined),
   Body("a", Undef, Undef, Undef, JsUndefined),
   Body("a", Undef, "a", Undef, JsUndefined)}
QuoteBodies ==
  {Body(Undef, Undef, "a", Undef, JsUndefined),
   Body(Undef, "a", "", Undef, JsUndefined),
   Body(Undef, "a", "a", Undef, JsUndefined)}
SurveyDatas ==
  {JsUndefined, JsNum("Infinity"), JsNum("-0"),
   JsObj(<<"q", "a">>,
         <<JsArr(<<JsNum("1"), JsBool("true"), JsNull>>), JsStr("a")>>)}
SurveyBodies == {Body(Undef, Undef, Undef, Undef, d) : d \in SurveyDatas}
NewsletterBodies ==
  {Body("a", Undef, Undef, Undef, JsUndefined),
   Body("a", Undef, "a", Undef, JsUndefined),
   Body("b", Undef, "a", Undef, JsUndefined),
   Body("a", Undef, "b", Undef, JsUndefined)}

\* A validation that demands email and phone together.
ContactValid_both(b) == Truthy(b.name) /\ Truthy(b.email) /\ Truthy(b.phone)
\* !(!name || (!email && !phone))
ContactValid(b) == ~(~Truthy(b.name) \/ (~Truthy(b.email) /\ ~Truthy(b.phone)))

\* A validation that forgets the email.
AppointmentValid_nameOnly(b) == Truthy(b.name)
\* !(!name || !email)
AppointmentValid(b) == ~(~Truthy(b.name) \/ ~Truthy(b.email))

\* !(!contactName || !email)
QuoteValid(b) == ~(~Truthy(b.contactName) \/ ~Truthy(b.email))

\* !(!email)
NewsletterValid(b) == Truthy(b.email)

\* The survey handler has no validation branch.
SurveyValid(b) == TRUE

RejectText(route) ==
  CASE route = "contact" -> "Name and either email or phone number are required"
    [] route = "appointment" -> "Name and email are required for appointment requests"
    [] route = "quote" -> "Contact name and email are required for quote requests"
    [] route = "newsletter" -> "Email is required for newsletter subscription"
    [] OTHER -> ""

FailText(route) ==
  CASE route = "contact" -> "Failed to submit contact form"
    [] route = "appointment" -> "Failed to submit appointment request"
    [] route = "quote" -> "Failed to submit quote request"
    [] route = "survey" -> "Failed to submit survey"
    [] route = "newsletter" -> "Failed to subscribe to newsletter"

SuccessText(route) ==
  CASE route = "contact" -> "Thank you for contacting us. We will reach out to you soon!"
    [] route = "appointment" -> "Appointment request received. We will contact you to confirm."
    [] route = "quote" -> "Quote request received. We will prepare your personalized quote and contact you soon."
    [] route = "survey" -> "Survey submitted successfully. We will review and reach out to guide your journey!"
    [] route = "newsletter" -> "Successfully subscribed to our newsletter!"

\* A response: status, and the members of its JSON body (Undef: no such
\* member; id 0: no id member).
NoResponse == [status |-> 0, success |-> FALSE, error |-> Undef, message |-> Undef, id |-> 0]
Rejected(route) ==
  [status |-> 400, success |-> FALSE, error |-> RejectText(route), message |-> Undef, id |-> 0]

\* A catch block that puts error.message into the body.
Failed_echo(route, err) ==
  [status |-> 500, success |-> FALSE, error |-> FailText(route), message |-> err, id |-> 0]
\* A catch block that answers as if nothing had failed.
Failed_swallow(route, err) ==
  [status |-> 200, success |-> TRUE, error |-> Undef, message |-> SuccessText(route), id |-> 0]
\* The catch block of a handler: the error is logged, the body names no detail.
Failed(route, err) ==
  [status |-> 500, success |-> FALSE, error |-> FailText(route), message |-> Undef, id |-> 0]

\* res.json of the success path; the newsletter body carries no id.
Succeeded(route, id) ==
  [status |-> 200, success |-> TRUE, error |-> Undef, message |-> SuccessText(route),
   id |-> IF route = "newsletter" THEN 0 ELSE id]

\* Error messages of the collaborators (what error.message holds).
StoreError == "connect ECONNREFUSED"
PoolEndedError == "Cannot use a pool after calling end on the pool"
MailError == "SMTP connection failed"
ParseError == "Unexpected token in JSON"

----------------------------------------------------------------------------
(* State.                                                                  *)

VARIABLES
  env,        \* process.env: EMAIL_USER, EMAIL_PASSWORD, NODE_ENV
  storeUp,    \* whether the database behind the pool can be reached
  proc,       \* "running", or "crashed" after an uncaught exception
  listening,  \* the HTTP server returned by app.listen accepts connections
  poolEnded,  \* pool.end() has been called
  reqs,       \* per request: position in its handler, body, result, response
  db,         \* the five tables, each a set of rows
  seq,        \* per table, the next value of its id sequence
  now         \* the store's clock (CURRENT_TIMESTAMP), one tick per statement

vars == <<env, storeUp, proc, listening, poolEnded, reqs, db, seq, now>>

Tables == {"contact_submissions", "appointment_requests", "quote_requests",
           "survey_submissions", "newsletter_subscriptions"}

NoResult == [id |-> 0, created_at |-> 0]

\* pc: "idle" (not yet received), "query" (awaiting pool.query), "settled"
\* (the statement has run, the handler is not yet resumed), "mail" (awaiting
\* transporter.sendMail), "done" (the response is sent).
\* events: what the request did, in order.  at: the store's clock when the
\* request's statement ran (0: it has not run).
IdleReq ==
  [pc |-> "idle", route |-> "", body |-> Body(Undef, Undef, Undef, Undef, JsUndefined),
   result |-> NoResult, at |-> 0, err |-> "", resp |-> NoResponse, events |-> <<>>]

Init ==
  /\ env \in [EMAIL_USER : {Undef, "staff@example.com"},
              EMAIL_PASSWORD : {Undef, "secret"},
              NODE_ENV : {Undef, "development"}]
  /\ storeUp = TRUE
  /\ proc = "running"
  /\ listening = TRUE
  /\ poolEnded = FALSE
  /\ reqs = [r \in Reqs |-> IdleReq]
  /\ db = [t \in Tables |-> {}]
  /\ seq = [t \in Tables |-> 1]
  /\ now = 1

\* EMAIL_USER || EMAIL_PASSWORD
EmailConfigured_either == Truthy(env.EMAIL_USER) \/ Truthy(env.EMAIL_PASSWORD)
\* process.env.EMAIL_USER && process.env.EMAIL_PASSWORD
EmailConfigured == Truthy(env.EMAIL_USER) /\ Truthy(env.EMAIL_PASSWORD)

\* Every handler holding a sendMail block.
HasMailBlock_all(route) == TRUE
\* The handlers that hold a sendMail block.
HasMailBlock(route) == route \in {"contact", "quote"}

\* Slot r can receive the next request.
CanArrive(r) ==
  /\ proc = "running"
  /\ listening
  /\ reqs[r].pc = "idle"
  /\ IF r = 1 THEN TRUE ELSE reqs[r - 1].pc # "idle"

----------------------------------------------------------------------------
(* The synchronous head of each handler: destructure, validate, and either *)
(* answer 400 or call pool.query and suspend.                              *)

Head400(r, route, b) ==
  reqs' = [reqs EXCEPT ![r] =
    [@ EXCEPT !.pc = "done", !.route = route, !.body = b,
              !.resp = Rejected(route),
              !.events = <<"validate", "respond">>]]

HeadQuery(r, route, b) ==
  reqs' = [reqs EXCEPT ![r] =
    [@ EXCEPT !.pc = "query", !.route = route, !.body = b,
              !.events = <<"validate", "query">>]]

\* The 400 branch without its return: the handler answers and goes on to
\* pool.query.
HeadFallThrough(r, route, b, valid) ==
  IF valid THEN HeadQuery(r, route, b)
  ELSE reqs' = [reqs EXCEPT ![r] =
         [@ EXCEPT !.pc = "query", !.route = route, !.body = b,
                   !.resp = Rejected(route),
                   !.events = <<"validate", "respond", "query">>]]
\* if (invalid) { return res.status(400).json(...) }  ...  await pool.query(...)
HandlerHead(r, route, b, valid) ==
  IF valid THEN HeadQuery(r, route, b) ELSE Head400(r, route, b)

ContactReceive(r) ==
  /\ CanArrive(r)
  /\ \E b \in ContactBodies : HandlerHead(r, "contact", b, ContactValid(b))
  /\ UNCHANGED <<env, storeUp, proc, listening, poolEnded, db, seq, now>>

AppointmentReceive(r) ==
  /\ CanArrive(r)
  /\ \E b \in AppointmentBodies : HandlerHead(r, "appointment", b, AppointmentValid(b))
  /\ UNCHANGED <<env, storeUp, proc, listening, poolEnded, db, seq, now>>

QuoteReceive(r) ==
  /\ CanArrive(r)
  /\ \E b \in QuoteBodies : HandlerHead(r, "quote", b, QuoteValid(b))
  /\ UNCHANGED <<env, storeUp, proc, listening, poolEnded, db, seq, now>>

SurveyReceive(r) ==
  /\ CanArrive(r)
  /\ \E b \in SurveyBodies : HandlerHead(r, "survey", b, SurveyValid(b))
  /\ UNCHANGED <<env, storeUp, proc, listening, poolEnded, db, seq, now>>

NewsletterReceive(r) ==
  /\ CanArrive(r)
  /\ \E b \in NewsletterBodies : HandlerHead(r, "newsletter", b, NewsletterValid(b))
  /\ UNCHANGED <<env, storeUp, proc, listening, poolEnded, db, seq, now>>

\* bodyParser rejects the body; the error middleware answers.
BodyParseError(r) ==
  /\ CanArrive(r)
  /\ reqs' = [reqs EXCEPT ![r] =
         [@ EXCEPT !.pc = "done", !.err = ParseError,
                   !.resp = [status |-> 500, success |-> FALSE,
                             error |-> "Something went wrong!",
                             message |-> IF env.NODE_ENV = "development"
                                         THEN ParseError ELSE Undef,
                             id |-> 0],
                   !.events = <<"middleware", "respond">>]]
  /\ UNCHANGED <<env, storeUp, proc, listening, poolEnded, db, seq, now>>

----------------------------------------------------------------------------
(* The statements, executed by the store one at a time (each is atomic).   *)

CanExecute(r, route) ==
  /\ proc = "running"
  /\ storeUp
  /\ ~poolEnded
  /\ reqs[r].pc = "query"
  /\ reqs[r].route = route

\* RETURNING id, created_at reaches the suspended handler.
Settle(r, id, ts) ==
  reqs' = [reqs EXCEPT ![r] =
    [@ EXCEPT !.pc = "settled", !.result = [id |-> id, created_at |-> ts], !.at = now,
              !.events = Append(@, "inserted")]]

\* INSERT INTO table (...) VALUES (...): a new row with the next id of the
\* table's sequence and the current timestamp.
Insert(r, table, row) ==
  /\ db' = [db EXCEPT ![table] = @ \cup {row}]
  /\ seq' = [seq EXCEPT ![table] = @ + 1]
  /\ now' = now + 1
  /\ Settle(r, seq[table], now)
  /\ UNCHANGED <<env, storeUp, proc, listening, poolEnded>>

ContactInsert(r) ==
  /\ CanExecute(r, "contact")
  /\ LET b == reqs[r].body IN
     Insert(r, "contact_submissions",
            [id |-> seq["contact_submissions"], name |-> PrepareValue(b.name),
             email |-> PrepareValue(b.email), phone |-> PrepareValue(b.phone),
             created_at |-> now, by |-> r])

AppointmentInsert(r) ==
  /\ CanExecute(r, "appointment")
  /\ LET b == reqs[r].body IN
     Insert(r, "appointment_requests",
            [id |-> seq["appointment_requests"], name |-> PrepareValue(b.name),
             email |-> PrepareValue(b.email), created_at |-> now, by |-> r])

QuoteInsert(r) ==
  /\ CanExecute(r, "quote")
  /\ LET b == reqs[r].body IN
     Insert(r, "quote_requests",
            [id |-> seq["quote_requests"], contact_name |-> PrepareValue(b.contactName),
             email |-> PrepareValue(b.email), created_at |-> now, by |-> r])

SurveyInsert(r) ==
  /\ CanExecute(r, "survey")
  /\ LET b == reqs[r].body IN
     Insert(r, "survey_submissions",
            [id |-> seq["survey_submissions"],
             survey_data |-> PrepareText(JSONstringify(b.surveyData)),
             created_at |-> now, by |-> r])

\* ON CONFLICT (email) DO NOTHING: the first writer's row stays.
Upsert_doNothing(rows, email, name, id, ts, r) ==
  IF \E x \in rows : x.email = email THEN rows
  ELSE rows \cup {[id |-> id, email |-> email, name |-> name, created_at |-> ts, by |-> r]}
\* INSERT ... ON CONFLICT (email) DO UPDATE SET name = EXCLUDED.name,
\* created_at = CURRENT_TIMESTAMP: the row of that email keeps its id.
Upsert(rows, email, name, id, ts, r) ==
  IF \E x \in rows : x.email = email
  THEN {IF x.email = email
        THEN [x EXCEPT !.name = name, !.created_at = ts, !.by = r]
        ELSE x : x \in rows}
  ELSE rows \cup {[id |-> id, email |-> email, name |-> name, created_at |-> ts, by |-> r]}

NewsletterUpsert(r) ==
  /\ CanExecute(r, "newsletter")
  /\ LET b == reqs[r].body
         t == "newsletter_subscriptions"
         rows == Upsert(db[t], b.email, PrepareValue(b.name), seq[t], now, r)
         mine == {x \in rows : x.email = b.email /\ x.by = r}
     IN /\ db' = [db EXCEPT ![t] = rows]
        \* the sequence value is drawn before the conflict is detected
        /\ seq' = [seq EXCEPT ![t] = @ + 1]
        /\ now' = now + 1
        /\ IF mine = {} THEN Settle(r, 0, 0)
           ELSE LET x == CHOOSE x \in mine : TRUE IN Settle(r, x.id, x.created_at)
  /\ UNCHANGED <<env, storeUp, proc, listening, poolEnded>>

\* pool.query rejects; the handler's catch block answers.
QueryRejected(r) ==
  /\ proc = "running"
  /\ reqs[r].pc = "query"
  /\ ~storeUp \/ poolEnded
  /\ LET e == IF poolEnded THEN PoolEndedError ELSE StoreError IN
     reqs' = [reqs EXCEPT ![r] =
       [@ EXCEPT !.pc = "done", !.err = e, !.resp = Failed(reqs[r].route, e),
                 !.events = @ \o <<"queryError", "respond">>]]
  /\ UNCHANGED <<env, storeUp, proc, listening, poolEnded, db, seq, now>>

----------------------------------------------------------------------------
(* The handlers resumed with the statement's result.                       *)

Respond200(r) ==
  reqs' = [reqs EXCEPT ![r] =
    [@ EXCEPT !.pc = "done", !.resp = Succeeded(reqs[r].route, reqs[r].result.id),
              !.events = Append(@, "respond")]]

CallSendMail(r) ==
  reqs' = [reqs EXCEPT ![r] =
    [@ EXCEPT !.pc = "mail", !.events = Append(@, "sendMail")]]

\* if (EMAIL_USER && EMAIL_PASSWORD) { await transporter.sendMail(...) }  res.json(...)
Resume(r, route) ==
  /\ proc = "running"
  /\ reqs[r].pc = "settled"
  /\ reqs[r].route = route
  /\ IF HasMailBlock(route) /\ EmailConfigured THEN CallSendMail(r) ELSE Respond200(r)
  /\ UNCHANGED <<env, storeUp, proc, listening, poolEnded, db, seq, now>>

ContactResume(r) == Resume(r, "contact")
AppointmentResume(r) == Resume(r, "appointment")
QuoteResume(r) == Resume(r, "quote")
SurveyResume(r) == Resume(r, "survey")
NewsletterResume(r) == Resume(r, "newsletter")

\* sendMail resolves; the handler answers with the success body.
MailSent(r) ==
  /\ proc = "running"
  /\ reqs[r].pc = "mail"
  /\ reqs' = [reqs EXCEPT ![r] =
       [@ EXCEPT !.pc = "done", !.resp = Succeeded(reqs[r].route, reqs[r].result.id),
                 !.events = @ \o <<"mailSent", "respond">>]]
  /\ UNCHANGED <<env, storeUp, proc, listening, poolEnded, db, seq, now>>

\* sendMail rejects; the same catch block answers.
MailRejected(r) ==
  /\ proc = "running"
  /\ reqs[r].pc = "mail"
  /\ reqs' = [reqs EXCEPT ![r] =
       [@ EXCEPT !.pc = "done", !.err = MailError, !.resp = Failed(reqs[r].route, MailError),
                 !.events = @ \o <<"mailError", "respond">>]]
  /\ UNCHANGED <<env, storeUp, proc, listening, poolEnded, db, seq, now>>

----------------------------------------------------------------------------
(* The environment and the process.                                        *)

StoreGoesDown ==
  /\ proc = "running"
  /\ storeUp
  /\ storeUp' = FALSE
  /\ UNCHANGED <<env, proc, listening, poolEnded, reqs, db, seq, now>>

StoreComesUp ==
  /\ proc = "running"
  /\ ~storeUp
  /\ storeUp' = TRUE
  /\ UNCHANGED <<env, proc, listening, poolEnded, reqs, db, seq, now>>

\* What the object returned by express() offers, of the names the source
\* uses.  close is a method of the http.Server that app.listen returns (and
\* the source drops), not of the application.
AppMethods == {"use", "get", "post", "listen"}

\* process.on('SIGTERM'): app.close is undefined, so calling it throws a
\* TypeError out of the signal listener; nothing catches it and the process
\* dies: server.close() and pool.end() were never called, and the handlers
\* suspended in the process are gone with its memory (reqs keeps only the
\* requests already answered).
Sigterm ==
  /\ proc = "running"
  /\ IF "close" \in AppMethods
     THEN /\ listening' = FALSE
          /\ poolEnded' = (\A r \in Reqs : reqs[r].pc \in {"idle", "done"})
          /\ UNCHANGED <<proc, reqs>>
     ELSE /\ proc' = "crashed"
          /\ reqs' = [r \in Reqs |-> IF reqs[r].pc = "done" THEN reqs[r] ELSE IdleReq]
          /\ UNCHANGED <<listening, poolEnded>>
  /\ UNCHANGED <<env, storeUp, db, seq, now>>

Next ==
  \/ \E r \in Reqs :
       \/ ContactReceive(r) \/ AppointmentReceive(r) \/ QuoteReceive(r)
       \/ SurveyReceive(r) \/ NewsletterReceive(r) \/ BodyParseError(r)
       \/ ContactInsert(r) \/ AppointmentInsert(r) \/ QuoteInsert(r)
       \/ SurveyInsert(r) \/ NewsletterUpsert(r) \/ QueryRejected(r)
       \/ ContactResume(r) \/ AppointmentResume(r) \/ QuoteResume(r)
       \/ SurveyResume(r) \/ NewsletterResume(r)
       \/ MailSent(r) \/ MailRejected(r)
  \/ StoreGoesDown \/ StoreComesUp \/ Sigterm

Spec == Init /\ [][Next]_vars

----------------------------------------------------------------------------
(* Vocabulary of the properties.                                           *)

\* A field that is present and not the empty string.
NonEmpty(v) == v \notin {Undef, ""}

Done(r) == reqs[r].pc = "done"
Ok(r) == reqs[r].resp.status = 200 /\ reqs[r].resp.success
Did(r, e) == \E i \in 1..Len(reqs[r].events) : reqs[r].events[i] = e
Times(r, e) == Cardinality({i \in 1..Len(reqs[r].events) : reqs[r].events[i] = e})
Before(r, e, f) ==
  \A i, j \in 1..Len(reqs[r].events) :
    reqs[r].events[i] = e /\ reqs[r].events[j] = f => i < j

TableOf(route) ==
  CASE route = "contact" -> "contact_submissions"
    [] route = "appointment" -> "appointment_requests"
    [] route = "quote" -> "quote_requests"
    [] route = "survey" -> "survey_submissions"
    [] route = "newsletter" -> "newsletter_subscriptions"

RowsBy(r) ==
  IF reqs[r].route \in Routes THEN {x \in db[TableOf(reqs[r].route)] : x.by = r} ELSE {}

\* The required fields of a route, as the specification states them.
Required(route, b) ==
  CASE route = "contact" -> NonEmpty(b.name) /\ (NonEmpty(b.email) \/ NonEmpty(b.phone))
    [] route = "appointment" -> NonEmpty(b.name) /\ NonEmpty(b.email)
    [] route = "quote" -> NonEmpty(b.contactName) /\ NonEmpty(b.email)
    [] route = "survey" -> TRUE
    [] route = "newsletter" -> NonEmpty(b.email)

\* A rejection: 400 with the route's message, nothing persisted, no statement
\* issued, no notification attempted.
RejectedCleanly(r, text) ==
  /\ reqs[r].resp.status = 400
  /\ reqs[r].resp.error = text
  /\ RowsBy(r) = {}
  /\ ~Did(r, "query")
  /\ ~Did(r, "sendMail")

\* Both mail credentials are set in the environment.
CredentialsSet == env.EMAIL_USER # Undef /\ env.EMAIL_PASSWORD # Undef

----------------------------------------------------------------------------
(* C1: contact validation.                                                 *)

ContactText == "Name and either email or phone number are required"

\* C1 as stated: every answered contact submission succeeds exactly when name
\* is non-empty and email or phone is non-empty; any other gets 400 with the
\* specific message, no row, no notification.
C1_Original ==
  \A r \in Reqs :
    Done(r) /\ reqs[r].route = "contact" =>
      /\ Ok(r) <=> Required("contact", reqs[r].body)
      /\ ~Required("contact", reqs[r].body) => RejectedCleanly(r, ContactText)

\* C1 (amended): an answered contact submission succeeds exactly when name is
\* non-empty, email or phone is non-empty, and neither its insert nor its
\* notification failed; with a required field missing it gets 400 with the
\* specific message, no row is persisted and no notification is attempted;
\* with the fields present and a failed insert or notification it gets 500.
C1_ContactValidation ==
  \A r \in Reqs :
    Done(r) /\ reqs[r].route = "contact" =>
      /\ Ok(r) <=> /\ Required("contact", reqs[r].body)
                   /\ Did(r, "inserted")
                   /\ ~Did(r, "mailError")
      /\ ~Required("contact", reqs[r].body) => RejectedCleanly(r, ContactText)
      /\ Required("contact", reqs[r].body) /\ ~Ok(r) => reqs[r].resp.status = 500

\* A contact submission with only a phone number accepted, another without a
\* name rejected.
C1_Witness ==
  \E r, q \in Reqs :
    /\ Done(r) /\ reqs[r].route = "contact" /\ Ok(r)
    /\ reqs[r].body.email = "" /\ reqs[r].body.phone = "a"
    /\ Done(q) /\ reqs[q].route = "contact" /\ reqs[q].resp.status = 400
    /\ reqs[q].body.name = Undef

----------------------------------------------------------------------------
(* C2: appointment and quote validation.                                   *)

\* C2 as stated: every answered appointment or quote submission succeeds
\* exactly when its required pair is present; otherwise 400 and no row.
C2_Original ==
  \A r \in Reqs :
    Done(r) /\ reqs[r].route \in {"appointment", "quote"} =>
      /\ Ok(r) <=> Required(reqs[r].route, reqs[r].body)
      /\ ~Required(reqs[r].route, reqs[r].body) =>
           reqs[r].resp.status = 400 /\ RowsBy(r) = {}

\* C2 (amended): an answered appointment (name, email) or quote (contactName,
\* email) submission succeeds exactly when both required fields are present
\* and neither its insert nor (for a quote) its notification failed; with a
\* required field missing it gets 400 and no row is persisted; with the
\* fields present and a failed insert or notification it gets 500.
C2_PairValidation ==
  \A r \in Reqs :
    Done(r) /\ reqs[r].route \in {"appointment", "quote"} =>
      /\ Ok(r) <=> /\ Required(reqs[r].route, reqs[r].body)
                   /\ Did(r, "inserted")
                   /\ ~Did(r, "mailError")
      /\ ~Required(reqs[r].route, reqs[r].body) =>
           /\ reqs[r].resp.status = 400
           /\ RowsBy(r) = {}
           /\ ~Did(r, "query")
      /\ Required(reqs[r].route, reqs[r].body) /\ ~Ok(r) => reqs[r].resp.status = 500

\* An appointment accepted and a quote without contact name rejected.
C2_Witness ==
  \E r, q \in Reqs :
    /\ Done(r) /\ reqs[r].route = "appointment" /\ Ok(r)
    /\ Done(q) /\ reqs[q].route = "quote" /\ reqs[q].resp.status = 400
    /\ reqs[q].body.contactName = Undef

----------------------------------------------------------------------------
(* C3: newsletter upsert.                                                  *)

Subscriptions == db["newsletter_subscriptions"]

\* The newsletter requests whose upsert has run, for one email.
Writers(email) ==
  {r \in Reqs : reqs[r].route = "newsletter" /\ reqs[r].at > 0
                /\ reqs[r].body.email = email}

\* C3: while the process runs, the store holds at most one row per email;
\* the row of an email carries the name and the timestamp of the newsletter
\* submission whose upsert ran last for that email (last writer wins), and
\* every newsletter submission whose upsert ran is answered {success: true}.
C3_NewsletterUpsert ==
  /\ \A x, y \in Subscriptions : x.email = y.email => x = y
  /\ proc = "running" =>
       /\ \A email \in {"a", "b"} :
            Writers(email) # {} =>
              \E x \in Subscriptions :
                /\ x.email = email
                /\ x.by \in Writers(email)
                /\ \A w \in Writers(email) : reqs[w].at <= reqs[x.by].at
                /\ x.name = reqs[x.by].body.name
                /\ x.created_at = reqs[x.by].at
       /\ \A x \in Subscriptions : Writers(x.email) # {}
  /\ \A r \in Reqs :
       Done(r) /\ reqs[r].route = "newsletter" /\ Did(r, "inserted") =>
         Ok(r) /\ reqs[r].resp.id = 0

\* The same email submitted twice with different names, both answered, the
\* later arrival's upsert having run first.
C3_Witness ==
  \E r, q \in Reqs :
    /\ r < q
    /\ Done(r) /\ Done(q) /\ Ok(r) /\ Ok(q)
    /\ reqs[r].route = "newsletter" /\ reqs[q].route = "newsletter"
    /\ reqs[r].body.email = reqs[q].body.email
    /\ reqs[r].body.name # reqs[q].body.name
    /\ reqs[q].at < reqs[r].at
    /\ Cardinality(Subscriptions) = 1

----------------------------------------------------------------------------
(* C4: the store is unreachable.                                           *)

\* The body of a response carries the detail of the error that caused it.
LeaksDetail(r) ==
  reqs[r].err # "" /\ (reqs[r].resp.error = reqs[r].err \/ reqs[r].resp.message = reqs[r].err)

GenericTexts ==
  {"Failed to submit contact form", "Failed to submit appointment request",
   "Failed to submit quote request", "Failed to submit survey",
   "Failed to subscribe to newsletter"}

\* C4 as stated: a request to a POST endpoint that is handled while the store
\* is unreachable (it arrives, or its statement is pending, and it is
\* answered with the store down) gets 500 with a generic message and no
\* detail in the body.
C4_Original ==
  [][\A r \in Reqs :
       /\ ~storeUp /\ ~storeUp'
       /\ reqs[r].pc \in {"idle", "query"}
       /\ reqs'[r].pc = "done"
       /\ reqs'[r].route \in Routes
       => /\ reqs'[r].resp.status = 500
          /\ reqs'[r].resp.error \in GenericTexts
          /\ reqs'[r].resp.message = Undef]_vars

\* C4 (amended): a request to any POST endpoint that passes validation and
\* whose statement fails because the store is unreachable gets 500 with the
\* endpoint's generic message and nothing else in the body; a request that
\* fails validation gets its 400 without the store being tried; and unless
\* NODE_ENV is development no response carries the detail of an error.
C4_StoreUnreachable ==
  \A r \in Reqs :
    Done(r) =>
      /\ Did(r, "queryError") =>
           /\ reqs[r].err = StoreError
           /\ reqs[r].resp.status = 500
           /\ ~reqs[r].resp.success
           /\ reqs[r].resp.error \in GenericTexts
           /\ reqs[r].resp.message = Undef
           /\ reqs[r].resp.id = 0
           /\ Required(reqs[r].route, reqs[r].body)
      /\ reqs[r].route \in Routes /\ ~Required(reqs[r].route, reqs[r].body) =>
           reqs[r].resp.status = 400 /\ ~Did(r, "query")
      /\ env.NODE_ENV # "development" => ~LeaksDetail(r)

\* With the store down and NODE_ENV unset, a contact and a newsletter
\* submission have both been answered 500 after their statements failed.
C4_Witness ==
  /\ ~storeUp
  /\ env.NODE_ENV # "development"
  /\ \E r, q \in Reqs :
       /\ Done(r) /\ reqs[r].route = "contact" /\ Did(r, "queryError")
       /\ Done(q) /\ reqs[q].route = "newsletter" /\ Did(q, "queryError")
       /\ reqs[r].resp.status = 500 /\ reqs[q].resp.status = 500

----------------------------------------------------------------------------
(* C5: no mail credentials.                                                *)

\* C5 as stated: with EMAIL_USER or EMAIL_PASSWORD unset, every answered
\* contact or quote submission with its required fields succeeds, its row
\* persisted and its id returned, and sendMail is never called.
C5_Original ==
  ~CredentialsSet =>
    \A r \in Reqs :
      reqs[r].route \in {"contact", "quote"} =>
        /\ ~Did(r, "sendMail")
        /\ Done(r) /\ Required(reqs[r].route, reqs[r].body) =>
             /\ Ok(r)
             /\ \E x \in RowsBy(r) : x.id = reqs[r].resp.id

\* C5 (amended): with EMAIL_USER or EMAIL_PASSWORD unset, sendMail is never
\* called for a contact or quote request, and every such request whose
\* insert succeeded is answered with success and the id of its persisted
\* row; the only answered valid submissions that do not succeed are those
\* whose insert failed.
C5_NoCredentials ==
  ~CredentialsSet =>
    \A r \in Reqs :
      reqs[r].route \in {"contact", "quote"} =>
        /\ ~Did(r, "sendMail")
        /\ reqs[r].pc # "mail"
        /\ Done(r) /\ Did(r, "inserted") =>
             /\ Ok(r)
             /\ reqs[r].resp.id > 0
             /\ \E x \in RowsBy(r) : x.id = reqs[r].resp.id
        /\ Done(r) /\ Required(reqs[r].route, reqs[r].body) /\ ~Ok(r) =>
             Did(r, "queryError")

\* Only EMAIL_USER is set; a contact and a quote submission have succeeded.
C5_Witness ==
  /\ env.EMAIL_USER # Undef /\ env.EMAIL_PASSWORD = Undef
  /\ \E r, q \in Reqs :
       /\ Done(r) /\ reqs[r].route = "contact" /\ Ok(r) /\ RowsBy(r) # {}
       /\ Done(q) /\ reqs[q].route = "quote" /\ Ok(q) /\ RowsBy(q) # {}

----------------------------------------------------------------------------
(* C6: the notification fails after the insert.                            *)

\* C6: a contact or quote request whose sendMail failed had its insert
\* succeed first and both credentials set, is answered 500 with the generic
\* message and no detail, called sendMail exactly once, and its row is
\* still in its table.
C6_MailFailure ==
  \A r \in Reqs :
    Done(r) /\ Did(r, "mailError") =>
      /\ reqs[r].route \in {"contact", "quote"}
      /\ CredentialsSet
      /\ Did(r, "inserted")
      /\ reqs[r].resp.status = 500
      /\ ~reqs[r].resp.success
      /\ reqs[r].resp.error \in GenericTexts
      /\ reqs[r].resp.message = Undef
      /\ Times(r, "sendMail") = 1
      /\ \E x \in RowsBy(r) : x.id = reqs[r].result.id

\* A contact and a quote submission answered 500 after their mail failed,
\* both rows stored.
C6_Witness ==
  \E r, q \in Reqs :
    /\ Done(r) /\ reqs[r].route = "contact" /\ Did(r, "mailError")
    /\ Done(q) /\ reqs[q].route = "quote" /\ Did(q, "mailError")
    /\ reqs[r].resp.status = 500 /\ reqs[q].resp.status = 500
    /\ RowsBy(r) # {} /\ RowsBy(q) # {}

----------------------------------------------------------------------------
(* C7: which requests notify, and when.                                    *)

\* C7: appointment, survey and newsletter requests never call sendMail; a
\* contact or quote request calls it at most once, only with both
\* credentials set, only after its own insert succeeded and before its
\* response.
C7_NotificationPolicy ==
  \A r \in Reqs :
    /\ reqs[r].route \notin {"contact", "quote"} =>
         ~Did(r, "sendMail") /\ reqs[r].pc # "mail"
    /\ Times(r, "sendMail") <= 1
    /\ Did(r, "sendMail") =>
         /\ CredentialsSet
         /\ Did(r, "inserted")
         /\ Before(r, "inserted", "sendMail")
         /\ Before(r, "sendMail", "respond")
         /\ \E x \in RowsBy(r) : x.id = reqs[r].result.id
    /\ reqs[r].route \in {"contact", "quote"} /\ CredentialsSet /\ Ok(r) =>
         Did(r, "sendMail")

\* A contact request that notified and was answered, next to an appointment
\* answered with success, both credentials set.
C7_Witness ==
  /\ CredentialsSet
  /\ \E r, q \in Reqs :
       /\ Done(r) /\ reqs[r].route = "contact" /\ Did(r, "mailSent") /\ Ok(r)
       /\ Done(q) /\ reqs[q].route = "appointment" /\ Ok(q)

----------------------------------------------------------------------------
(* C8: the survey endpoint.                                                *)

SurveyRows == db["survey_submissions"]

\* The surveyData a survey row was written from (the writer is answered or
\* still in the process).
SurveyInput(x) == reqs[x.by].body.surveyData

Written(x) == reqs[x.by].route = "survey" /\ reqs[x.by].at > 0

RECURSIVE Plain(_)
\* A value that is present, with every number in it finite and not negative
\* zero.
Plain(v) ==
  /\ v.t # "undefined"
  /\ v.t = "number" => v.s \in FiniteNums
  /\ \A i \in 1..Len(v.kids) : Plain(v.kids[i])

\* C8 as stated: the survey endpoint never answers 400, and the stored value
\* of every accepted surveyData, an absent one included, reads back
\* deep-equal to the input.
C8_Original ==
  /\ \A r \in Reqs : reqs[r].route = "survey" => reqs[r].resp.status # 400
  /\ \A x \in SurveyRows : Written(x) => ReadBack(x.survey_data) = SurveyInput(x)

\* C8 (amended): the survey endpoint never answers 400; a surveyData that is
\* present and holds no non-finite number and no negative zero reads back
\* deep-equal to the input; an absent surveyData is stored as NULL and reads
\* back as null, a non-finite number reads back as null and negative zero as
\* zero.
C8_SurveyRoundTrip ==
  /\ \A r \in Reqs :
       reqs[r].route = "survey" =>
         /\ reqs[r].resp.status # 400
         /\ Did(r, "query")
         /\ Done(r) /\ Did(r, "inserted") => Ok(r) /\ RowsBy(r) # {}
  /\ \A x \in SurveyRows :
       Written(x) =>
         /\ Plain(SurveyInput(x)) => ReadBack(x.survey_data) = SurveyInput(x)
         /\ SurveyInput(x) = JsUndefined =>
              x.survey_data = <<SqlNull>> /\ ReadBack(x.survey_data) = JsNull
         /\ SurveyInput(x) = JsNum("Infinity") => ReadBack(x.survey_data) = JsNull
         /\ SurveyInput(x) = JsNum("-0") => ReadBack(x.survey_data) = JsNum("0")

\* A nested object and an absent surveyData both stored and answered with
\* success.
C8_Witness ==
  \E r, q \in Reqs :
    /\ Done(r) /\ reqs[r].route = "survey" /\ Ok(r) /\ RowsBy(r) # {}
    /\ reqs[r].body.surveyData.t = "object"
    /\ Done(q) /\ reqs[q].route = "survey" /\ Ok(q) /\ RowsBy(q) # {}
    /\ reqs[q].body.surveyData = JsUndefined

----------------------------------------------------------------------------
(* C9: isolation of the requests in flight.                                *)

\* The status a request reaches running alone, from its own body and the
\* outcome of its own steps.
OwnStatus(r) ==
  CASE ~Required(reqs[r].route, reqs[r].body) -> 400
    [] Did(r, "queryError") -> 500
    [] Did(r, "mailError") -> 500
    [] OTHER -> 200

\* The table of the request holds what the request submitted.
StoresOwn(r) ==
  LET b == reqs[r].body
      rows == db[TableOf(reqs[r].route)]
  IN CASE reqs[r].route = "contact" ->
            \E x \in rows : /\ x.id = reqs[r].result.id
                            /\ x.name = PrepareValue(b.name)
                            /\ x.email = PrepareValue(b.email)
                            /\ x.phone = PrepareValue(b.phone)
       [] reqs[r].route = "appointment" ->
            \E x \in rows : /\ x.id = reqs[r].result.id
                            /\ x.name = PrepareValue(b.name)
                            /\ x.email = PrepareValue(b.email)
       [] reqs[r].route = "quote" ->
            \E x \in rows : /\ x.id = reqs[r].result.id
                            /\ x.contact_name = PrepareValue(b.contactName)
                            /\ x.email = PrepareValue(b.email)
       [] reqs[r].route = "survey" ->
            \E x \in rows : x.id = reqs[r].result.id /\ x.by = r
       [] reqs[r].route = "newsletter" ->
            \E x \in rows : x.email = b.email /\ x.name = PrepareValue(b.name)

\* What holds of one request whatever the others do.
OwnOutcome(r) ==
  /\ Times(r, "respond") <= 1
  /\ Done(r) <=> Times(r, "respond") = 1
  /\ Done(r) =>
       /\ reqs[r].resp.status = OwnStatus(r)
       /\ Ok(r) <=> OwnStatus(r) = 200
       /\ Ok(r) /\ reqs[r].route # "newsletter" => reqs[r].resp.id = reqs[r].result.id
  /\ Did(r, "queryError") =>
       /\ ~Did(r, "inserted") /\ ~Did(r, "sendMail") /\ ~Ok(r)
       /\ RowsBy(r) = {}
       /\ Done(r)
  /\ Did(r, "mailError") => Done(r) /\ ~Ok(r)

\* C9 as stated: a failure aborts the rest of its own request only, every
\* request is answered once, and a request answered with success has, at its
\* response, the stored row it would have stored running alone.
C9_Original ==
  [][\A r \in Reqs :
       reqs[r].pc # "done" /\ reqs'[r].pc = "done" /\ reqs'[r].route \in Routes
       => /\ OwnOutcome(r)'
          /\ Ok(r)' => StoresOwn(r)']_vars

\* C9 (amended): a failure aborts the rest of its own request only (a failed
\* insert: no row, no notification, no success), every request is answered
\* at most once and with the status its own body and its own steps decide,
\* and the row a contact, appointment, quote or survey request inserted
\* stays stored with the values it submitted and the id it was answered
\* with; only a newsletter row can be overwritten, by a later upsert of the
\* same email from another request.
C9_Isolation ==
  \A r \in Reqs :
    reqs[r].route \in Routes =>
      /\ OwnOutcome(r)
      /\ Did(r, "inserted") /\ reqs[r].route # "newsletter" =>
           StoresOwn(r) /\ Cardinality(RowsBy(r)) = 1
      /\ Did(r, "inserted") /\ reqs[r].route = "newsletter" =>
           \E x \in Subscriptions :
             /\ x.email = reqs[r].body.email
             /\ x.by = r \/ reqs[x.by].at > reqs[r].at \/ proc = "crashed"
             /\ x.by = r => StoresOwn(r)

\* Two requests overlapped (the earlier arrival's statement ran after the
\* later one's); the later one failed at its notification and the earlier
\* one succeeded.
C9_Witness ==
  \E r, q \in Reqs :
    /\ r < q
    /\ Done(r) /\ Done(q)
    /\ 0 < reqs[q].at /\ reqs[q].at < reqs[r].at
    /\ Did(q, "mailError") /\ reqs[q].resp.status = 500
    /\ Ok(r) /\ StoresOwn(r)

----------------------------------------------------------------------------
(* C10: shutdown.                                                          *)

\* C10 as stated: SIGTERM closes the HTTP server, the pool is ended only
\* once the server is closed, and no handler calls pool.query on an ended
\* pool.
C10_GracefulShutdown ==
  [][/\ Sigterm => ~listening' /\ proc' = "running"
     /\ poolEnded' => ~listening'
     /\ \A r \in Reqs :
          reqs[r].pc # "query" /\ reqs'[r].pc = "query" => ~poolEnded]_vars

=============================================================================
